---- MODULE Spec2Model ----
(***************************************************************************)
(* Moth Mailer (src/moth_mailer.py): each run reads the list of already    *)
(* sent observation ids from a Gist, fetches a random page of moth         *)
(* observations from iNaturalist, picks one that was not sent before       *)
(* (preferring favorited ones), mails it and writes the id back to the     *)
(* Gist.                                                                   *)
(*                                                                         *)
(* A run is one call of main().  Every remote call of a run is one step,   *)
(* so that the steps of two overlapping runs interleave exactly where the  *)
(* processes can interleave: at the Gist reads, the iNaturalist requests,  *)
(* the mail request and the Gist write.                                    *)
(***************************************************************************)
EXTENDS Integers, Sequences, FiniteSets, TLC

\* ---------------------------------------------------------------- bounds
\* Observation ids are 1..MaxId.
MaxId == 3
\* Runs of main() started over the lifetime of the store.
MaxRuns == 2
\* Length of the list the Gist holds before the first run.
MaxInitLen == 2

Ids == 1..MaxId
\* The two processes (scheduled invocations) that may execute main().
Runs == {"r1", "r2"}
\* A page of results: the observations of one response, without repetition.
Pages == SUBSET Ids

\* ------------------------------------------------- the remote observations
\* Observation 1 is named and favorited, 2 named and not favorited, 3 neither,
\* 4 favorited and unnamed, and so on with period 4.
\* m.get("faves_count", 0) of observation m (line 84).
faves_count(m) == IF (m % 4) \in {0, 1} THEN 2 ELSE 0
\* Whether m's taxon carries "preferred_common_name" (line 111).
has_common_name(m) == (m % 4) \in {1, 2}
\* taxon.get("preferred_common_name", "Unknown moth") (line 111).
common_name(m) == IF has_common_name(m) THEN "named" ELSE "Unknown moth"

\* ---------------------------------------------------------------- helpers
Range(s) == {s[i] : i \in 1..Len(s)}
Min(S) == CHOOSE x \in S : \A y \in S : x <= y
RECURSIVE SetToSeq(_)
\* list(sent_moths): the elements of a set as a list without repetition.
SetToSeq(S) == IF S = {} THEN <<>> ELSE <<Min(S)>> \o SetToSeq(S \ {Min(S)})

VARIABLES
    configured,   \* GITHUB_TOKEN and GIST_ID are both set
    doc,          \* content of sent_moths.json in the Gist
    pc,           \* position of each run in main()
    moth_number,  \* main: moth_number
    sent_moths,   \* fetch_random_moth: sent_moths
    fetched,      \* fetch_random_moth: the pages ("results") received so far
    new_moths,    \* fetch_random_moth: new_moths
    moth,         \* main: moth["id"], 0 before fetch_random_moth returns
    save_set,     \* save_sent_moth: sent_moths
    err,          \* the exception main() re-raised, "none" if none
    fault,        \* some Gist request of this run did not succeed
    patched,      \* the run's PATCH: "no" (none sent), "ok" or "rejected"
    started,      \* number of runs started so far
    delivered,    \* the mails accepted so far, in order: id and moth_number
    committed,    \* ids written to the Gist by a successful PATCH
    appended,     \* the id of the latest successful PATCH, 0 if none
    storeFault,   \* some Gist request of some run did not succeed
    given_url,    \* fetch_random_moth: photo["url"] as the source gave it
    photo_url,    \* fetch_random_moth: photo_url
    rewrites      \* how many times lines 106-109 were applied to photo_url

url_vars == <<given_url, photo_url, rewrites>>

vars == <<configured, doc, pc, moth_number, sent_moths, fetched, new_moths,
          moth, save_set, err, fault, patched, started, delivered, committed,
          appended, storeFault, url_vars>>

\* --------------------------------------------------------------- the store
\* sent_moths.json holds JSON text.  kind "flat": a list of the ids in items;
\* kind "records": a list of objects, one per id in items; kind "malformed":
\* no JSON list at all (or the file is missing from the Gist).
FlatDoc(items) == [kind |-> "flat", items |-> items]
\* The lists the Gist may hold before the first run: the ids 1..k, or k times
\* the id 1 (a hand-written list may repeat an id).
InitItems ==
    {[i \in 1..k |-> i] : k \in 0..MaxInitLen} \cup {[i \in 1..k |-> 1] : k \in 0..MaxInitLen}
InitDocs ==
    {FlatDoc(s) : s \in InitItems}
        \cup {[kind |-> "records", items |-> s] : s \in InitItems \ {<<>>}}
        \cup {[kind |-> "malformed", items |-> <<>>]}

\* Variant: a list of objects is read as the list of their ids.
get_sent_moths_any_shape(ok) ==
    IF ~configured THEN [raises |-> FALSE, ids |-> {}]
    ELSE IF ~ok THEN [raises |-> FALSE, ids |-> {}]
    ELSE IF doc.kind = "malformed" THEN [raises |-> TRUE, ids |-> {}]
    ELSE [raises |-> FALSE, ids |-> Range(doc.items)]
\* get_sent_moths(), given whether the GET answered 2xx: the set it returns,
\* or raises = TRUE when json.loads / the key lookup / set() raise.
\* set() of a list of dicts raises TypeError (dicts are unhashable).
get_sent_moths(ok) ==
    IF ~configured THEN [raises |-> FALSE, ids |-> {}]
    ELSE IF ~ok THEN [raises |-> FALSE, ids |-> {}]
    ELSE IF doc.kind = "malformed" THEN [raises |-> TRUE, ids |-> {}]
    ELSE IF doc.kind = "records" /\ doc.items # <<>> THEN [raises |-> TRUE, ids |-> {}]
    ELSE [raises |-> FALSE, ids |-> Range(doc.items)]

\* Whether that call of get_sent_moths() failed to read the stored ids.
ReadFault(ok) == configured /\ (~ok \/ get_sent_moths(ok).raises)

\* The retry budget of fetch_random_moth: the first request (line 74) and the
\* one retry (line 90).
MAX_ATTEMPTS == 2

\* Slip: the count without the + 1.
CountOfSize(ids) == Cardinality(ids)
\* len(sent_moths) + 1 (line 59).
CountOf(ids) == Cardinality(ids) + 1

\* Slip: the id is never added to the set that is written back.
AddSentForgotten(ids, moth_id) == ids
\* sent_moths.add(moth_id) (line 38).
AddSent(ids, moth_id) == ids \cup {moth_id}

\* ----------------------------------------------------------- the selection
\* Slip: the page is not filtered against the sent ids.
NewMothsUnfiltered(results, sent) == results
\* Variant: observations without a common name are filtered out as well.
NewMothsNamed(results, sent) == {m \in results : m \notin sent /\ has_common_name(m)}
\* [m for m in results if m["id"] not in sent_moths] (lines 83, 97).
NewMoths(results, sent) == {m \in results : m \notin sent}
\* [m for m in new_moths if m.get("faves_count", 0) > 0] (lines 84, 98).
FavoritedMoths(new) == {m \in new : faves_count(m) > 0}
\* Slip: the favorited observations are not preferred.
NarrowSkipped(new) == new
\* Slip: only favorited observations are kept, also when there are none.
NarrowStrict(new) == FavoritedMoths(new)
\* if favorited_moths: new_moths = favorited_moths (lines 86-87, 99-100).
Narrow(new) == IF FavoritedMoths(new) # {} THEN FavoritedMoths(new) ELSE new
\* The list random.choice draws from, for one page.
Candidates(results, sent) == Narrow(NewMoths(results, sent))

\* -------------------------------------------------------------------- Init
\* No process has entered main() yet.
NoRun ==
    /\ pc = [r \in Runs |-> "idle"]
    /\ moth_number = [r \in Runs |-> 0]
    /\ sent_moths = [r \in Runs |-> {}]
    /\ fetched = [r \in Runs |-> <<>>]
    /\ new_moths = [r \in Runs |-> {}]
    /\ moth = [r \in Runs |-> 0]
    /\ save_set = [r \in Runs |-> {}]
    /\ err = [r \in Runs |-> "none"]
    /\ fault = [r \in Runs |-> FALSE]
    /\ patched = [r \in Runs |-> "no"]
    /\ started = 0
    /\ delivered = <<>>
    /\ committed = {}
    /\ appended = 0
    /\ storeFault = FALSE

Init ==
    /\ configured \in BOOLEAN
    /\ doc \in (IF configured THEN InitDocs ELSE {FlatDoc(<<>>)})
    /\ NoRun
    /\ given_url = <<>>
    /\ photo_url = <<>>
    /\ rewrites = 0

Active(r) == pc[r] \notin {"idle", "done", "failed"}

\* main() raises e: the run ends in failure.
Raise(r, e) ==
    /\ pc' = [pc EXCEPT ![r] = "failed"]
    /\ err' = [err EXCEPT ![r] = e]

\* Slip: a failed search request is printed and the run goes on to the retry.
SourceFailsLogged(r) ==
    /\ pc' = [pc EXCEPT ![r] = "retry"]
    /\ err' = [err EXCEPT ![r] = "source"]
\* response.raise_for_status() raises (lines 79, 95) and main() re-raises.
SourceFails(r) == Raise(r, "source")

\* Slip: the empty page is not tested for.
EmptyFirstPageIgnored(results) == FALSE
\* if not results (line 81).
EmptyFirstPage(results) == results = {}

\* Slip: a failed mail is printed and the run goes on to save the id.
MailFailsLogged(r) ==
    /\ pc' = [pc EXCEPT ![r] = "save"]
    /\ err' = [err EXCEPT ![r] = "mail"]
\* send_email raises (lines 199-202, 218-219) and main() re-raises.
MailFails(r) == Raise(r, "mail")

\* Slip: a PATCH that is not ok raises.
PatchOutcomeRaised(ok) ==
    IF ok THEN [pc |-> "done", err |-> "none"] ELSE [pc |-> "failed", err |-> "store_write"]
\* if not response.ok: print a warning (lines 53-54); save_sent_moth returns
\* either way and main() ends (line 235).
PatchOutcome(ok) == [pc |-> "done", err |-> "none"]

NoteFault(r, f) ==
    /\ fault' = [fault EXCEPT ![r] = @ \/ f]
    /\ storeFault' = (storeFault \/ f)

\* A process enters main() (line 223).  The processes that have ended are gone,
\* and their variables with them.
StartRun(r) ==
    /\ ~Active(r)
    /\ started < MaxRuns
    /\ started' = started + 1
    /\ pc' = [q \in Runs |-> IF q = r THEN "count" ELSE IF Active(q) THEN pc[q] ELSE "idle"]
    /\ moth_number' = [q \in Runs |-> IF Active(q) /\ q # r THEN moth_number[q] ELSE 0]
    /\ sent_moths' = [q \in Runs |-> IF Active(q) /\ q # r THEN sent_moths[q] ELSE {}]
    /\ fetched' = [q \in Runs |-> IF Active(q) /\ q # r THEN fetched[q] ELSE <<>>]
    /\ new_moths' = [q \in Runs |-> IF Active(q) /\ q # r THEN new_moths[q] ELSE {}]
    /\ moth' = [q \in Runs |-> IF Active(q) /\ q # r THEN moth[q] ELSE 0]
    /\ save_set' = [q \in Runs |-> IF Active(q) /\ q # r THEN save_set[q] ELSE {}]
    /\ err' = [q \in Runs |-> IF Active(q) /\ q # r THEN err[q] ELSE "none"]
    /\ fault' = [q \in Runs |-> IF Active(q) /\ q # r THEN fault[q] ELSE FALSE]
    /\ patched' = [q \in Runs |-> IF Active(q) /\ q # r THEN patched[q] ELSE "no"]
    /\ UNCHANGED <<url_vars, configured, doc, delivered, committed, appended, storeFault>>

\* moth_number = get_moth_count() (lines 226, 57-59).
get_moth_count(r) ==
    /\ pc[r] = "count"
    /\ \E ok \in BOOLEAN :
         /\ NoteFault(r, ReadFault(ok))
         /\ IF get_sent_moths(ok).raises
               THEN /\ Raise(r, "store")
                    /\ UNCHANGED moth_number
               ELSE /\ moth_number' = [moth_number EXCEPT ![r] = CountOf(get_sent_moths(ok).ids)]
                    /\ pc' = [pc EXCEPT ![r] = "known"]
                    /\ UNCHANGED err
    /\ UNCHANGED <<url_vars, configured, doc, sent_moths, fetched, new_moths, moth, save_set,
                   patched, started, delivered, committed, appended>>

\* fetch_random_moth: sent_moths = get_sent_moths() (line 63).
fetch_known(r) ==
    /\ pc[r] = "known"
    /\ \E ok \in BOOLEAN :
         /\ NoteFault(r, ReadFault(ok))
         /\ IF get_sent_moths(ok).raises
               THEN /\ Raise(r, "store")
                    /\ UNCHANGED sent_moths
               ELSE /\ sent_moths' = [sent_moths EXCEPT ![r] = get_sent_moths(ok).ids]
                    /\ pc' = [pc EXCEPT ![r] = "sample"]
                    /\ UNCHANGED err
    /\ UNCHANGED <<url_vars, configured, doc, moth_number, fetched, new_moths, moth, save_set,
                   patched, started, delivered, committed, appended>>

\* fetch_random_moth: the first request and its filtering (lines 74-88).
fetch_first(r) ==
    /\ pc[r] = "sample"
    /\ \E ok \in BOOLEAN, results \in Pages :
         IF ~ok
            THEN \* response.raise_for_status() (line 79)
                 /\ SourceFails(r)
                 /\ UNCHANGED <<fetched, new_moths>>
            ELSE /\ fetched' = [fetched EXCEPT ![r] = Append(@, results)]
                 /\ IF EmptyFirstPage(results)
                       THEN \* raise Exception("No moth observations found")
                            /\ Raise(r, "no_observations")
                            /\ UNCHANGED new_moths
                       ELSE /\ new_moths' = [new_moths EXCEPT ![r] =
                                                Candidates(results, sent_moths[r])]
                            /\ pc' = [pc EXCEPT ![r] =
                                        IF Candidates(results, sent_moths[r]) = {}
                                           THEN "retry" ELSE "choose"]
                            /\ UNCHANGED err
    /\ UNCHANGED <<url_vars, configured, doc, moth_number, sent_moths, moth, save_set, fault,
                   patched, started, delivered, committed, appended, storeFault>>

\* fetch_random_moth: the second request, made when new_moths is empty
\* (lines 88-102).
fetch_retry(r) ==
    /\ pc[r] = "retry"
    /\ \E ok \in BOOLEAN, results \in Pages :
         IF ~ok
            THEN \* response.raise_for_status() (line 95)
                 /\ SourceFails(r)
                 /\ UNCHANGED <<fetched, new_moths>>
            ELSE /\ fetched' = [fetched EXCEPT ![r] = Append(@, results)]
                 /\ new_moths' = [new_moths EXCEPT ![r] =
                                     Candidates(results, sent_moths[r])]
                 /\ IF Candidates(results, sent_moths[r]) = {}
                       THEN \* raise Exception("Could not find unsent moth after retry")
                            Raise(r, "exhausted")
                       ELSE /\ pc' = [pc EXCEPT ![r] = "choose"]
                            /\ UNCHANGED err
    /\ UNCHANGED <<url_vars, configured, doc, moth_number, sent_moths, moth, save_set, fault,
                   patched, started, delivered, committed, appended, storeFault>>

\* fetch_random_moth: observation = random.choice(new_moths) and the returned
\* dict (lines 103-139).
fetch_choose(r) ==
    /\ pc[r] = "choose"
    /\ \E observation \in new_moths[r] :
         moth' = [moth EXCEPT ![r] = observation]
    /\ pc' = [pc EXCEPT ![r] = "send"]
    /\ UNCHANGED <<url_vars, configured, doc, moth_number, sent_moths, fetched, new_moths,
                   save_set, err, fault, patched, started, delivered, committed,
                   appended, storeFault>>

\* result = send_email(moth, moth_number) (lines 232, 198-220).  It raises when
\* RESEND_API_KEY or RECIPIENT_EMAIL is unset and when the response is not ok.
\* The variables of fetch_random_moth, which has returned, are dropped here.
send_email(r) ==
    /\ pc[r] = "send"
    /\ \E outcome \in {"ok", "unset", "rejected"} :
         IF outcome = "ok"
            THEN /\ delivered' = Append(delivered,
                                        [id |-> moth[r], number |-> moth_number[r]])
                 /\ pc' = [pc EXCEPT ![r] = "save"]
                 /\ UNCHANGED err
            ELSE /\ MailFails(r)
                 /\ UNCHANGED delivered
    /\ sent_moths' = [sent_moths EXCEPT ![r] = {}]
    /\ fetched' = [fetched EXCEPT ![r] = <<>>]
    /\ new_moths' = [new_moths EXCEPT ![r] = {}]
    /\ UNCHANGED <<url_vars, configured, doc, moth_number, moth, save_set, fault, patched,
                   started, committed, appended, storeFault>>

\* save_sent_moth: the configuration check, the read and the add (lines 35-38).
save_read(r) ==
    /\ pc[r] = "save"
    /\ IF ~configured
          THEN \* return (line 36)
               /\ pc' = [pc EXCEPT ![r] = "done"]
               /\ UNCHANGED <<save_set, err, fault, storeFault>>
          ELSE \E ok \in BOOLEAN :
                 /\ NoteFault(r, ReadFault(ok))
                 /\ IF get_sent_moths(ok).raises
                       THEN /\ Raise(r, "store")
                            /\ UNCHANGED save_set
                       ELSE /\ save_set' = [save_set EXCEPT ![r] =
                                               AddSent(get_sent_moths(ok).ids, moth[r])]
                            /\ pc' = [pc EXCEPT ![r] = "patch"]
                            /\ UNCHANGED err
    /\ UNCHANGED <<url_vars, configured, doc, moth_number, sent_moths, fetched, new_moths, moth,
                   patched, started, delivered, committed, appended>>

\* save_sent_moth: the PATCH that replaces the whole file (lines 39-54).  A
\* response that is not ok is printed as a warning and main() goes on.
save_patch(r) ==
    /\ pc[r] = "patch"
    /\ \E ok \in BOOLEAN :
         /\ NoteFault(r, ~ok)
         /\ IF ok
               THEN /\ doc' = FlatDoc(SetToSeq(save_set[r]))
                    /\ committed' = committed \cup {moth[r]}
                    /\ appended' = moth[r]
               ELSE UNCHANGED <<doc, committed, appended>>
         /\ patched' = [patched EXCEPT ![r] = IF ok THEN "ok" ELSE "rejected"]
         /\ pc' = [pc EXCEPT ![r] = PatchOutcome(ok).pc]
         /\ err' = [err EXCEPT ![r] = PatchOutcome(ok).err]
    /\ save_set' = [save_set EXCEPT ![r] = {}]
    /\ UNCHANGED <<url_vars, configured, moth_number, sent_moths, fetched, new_moths, moth,
                   started, delivered>>

\* A scheduled invocation starts when the previous one has ended.
StartAlone(r) ==
    /\ \A q \in Runs : ~Active(q)
    /\ StartRun(r)

Step(r) ==
    \/ get_moth_count(r)
    \/ fetch_known(r)
    \/ fetch_first(r)
    \/ fetch_retry(r)
    \/ fetch_choose(r)
    \/ send_email(r)
    \/ save_read(r)
    \/ save_patch(r)

Next == \E r \in Runs : StartAlone(r) \/ Step(r)

\* Runs of main() one after the other.
Spec == Init /\ [][Next]_vars

\* Every process is invoked while the others may still be running.
StartOverlapping(r) ==
    /\ started < Cardinality(Runs)
    /\ StartRun(r)

NextOverlap == \E r \in Runs : StartOverlapping(r) \/ Step(r)

\* Runs of main() that may overlap (no lock protects the Gist).
OverlapSpec == Init /\ [][NextOverlap]_vars

\* ------------------------------------------------------------- properties
\* The observations of page i of run r that are not in the run's known set.
NovelOf(r, i) == {m \in fetched[r][i] : m \notin sent_moths[r]}
\* All of them, over the pages run r has received.
Pool(r) == UNION {NovelOf(r, i) : i \in 1..Len(fetched[r])}
\* fetch_random_moth of run r has returned and its result is about to be mailed.
Picked(r) == pc[r] = "send"

\* C1: over runs that do not overlap, with the Gist configured and every Gist
\* read and write succeeding, no id is delivered twice, and an id a run has
\* selected is not among the ids committed by earlier runs.
NoRepeatedSelection ==
    (configured /\ ~storeFault) =>
        /\ \A i, j \in 1..Len(delivered) : i # j => delivered[i].id # delivered[j].id
        /\ \A r \in Runs : (moth[r] # 0 /\ pc[r] # "done") => moth[r] \notin committed

\* A run has selected an id from a page that also held an id committed earlier.
NoRepeatedSelectionWitness ==
    \E r \in Runs :
        /\ configured /\ ~storeFault /\ Picked(r)
        /\ committed # {}
        /\ \E i \in 1..Len(fetched[r]) : fetched[r][i] \cap committed # {}

\* C2: when some page the run received holds an observation that is named and
\* not in the known set, fetch_random_moth does not raise, and what it returns
\* is not in the known set read at the start of the run.
NovelNamedIsSelected ==
    \A r \in Runs :
        (\E m \in Pool(r) : has_common_name(m)) =>
            /\ err[r] = "none"
            /\ pc[r] \in {"choose", "send"}
            /\ new_moths[r] # {}
            /\ Picked(r) => (moth[r] \in Ids /\ moth[r] \notin sent_moths[r])

\* The novel named observation came with the retry, after a redundant page.
NovelNamedIsSelectedWitness ==
    \E r \in Runs :
        /\ Picked(r)
        /\ Len(fetched[r]) = MAX_ATTEMPTS
        /\ sent_moths[r] # {}
        /\ \E m \in Pool(r) : has_common_name(m)

\* C3: when some novel observation the run received is favorited, the
\* observation picked is favorited.
FavoritedPreferred ==
    \A r \in Runs :
        (Picked(r) /\ \E m \in Pool(r) : faves_count(m) > 0) => faves_count(moth[r]) > 0

\* 201 (named, 2 favorites) and 202 (named, none) on the first page: 201 picked.
FavoritedPreferredWitness ==
    \E r \in Runs :
        /\ Picked(r)
        /\ sent_moths[r] = {}
        /\ fetched[r] = <<{1, 2}>>
        /\ moth[r] = 1

\* C4 as claimed: when MAX_ATTEMPTS pages left no favorited candidate, the
\* observation picked is one of the novel observations that carry a name.
PickFromNamedPool ==
    \A r \in Runs :
        (/\ Picked(r)
         /\ Len(fetched[r]) = MAX_ATTEMPTS
         /\ \A m \in Pool(r) : faves_count(m) = 0)
            => moth[r] \in {m \in Pool(r) : has_common_name(m)}

\* C4: when no novel observation the run received is favorited, the observation
\* picked is one of the novel observations of the pages received, with or
\* without a name.
PickFromPool ==
    \A r \in Runs :
        (Picked(r) /\ \A m \in Pool(r) : faves_count(m) = 0) => moth[r] \in Pool(r)

\* After a redundant page the retry brought no favorited observation, and an
\* unnamed one was picked.
PickFromPoolWitness ==
    \E r \in Runs :
        /\ Picked(r)
        /\ Len(fetched[r]) = MAX_ATTEMPTS
        /\ \A m \in Pool(r) : faves_count(m) = 0
        /\ ~has_common_name(moth[r])

\* C5 as claimed: new_moths never holds, and the run never picks, an
\* observation without a common name.
PoolIsNamed ==
    \A r \in Runs :
        pc[r] \in {"choose", "send"} =>
            /\ \A m \in new_moths[r] : has_common_name(m)
            /\ Picked(r) => has_common_name(moth[r])

\* C5: new_moths never holds, and the run never picks, an id of the known set;
\* unnamed observations stay in: for the known set {1} and the page [1 named,
\* 2 named without favorites, 3 unnamed] new_moths is [2, 3] and the pick is
\* 2 or 3.
PoolIsNovel ==
    \A r \in Runs :
        pc[r] \in {"choose", "send"} =>
            /\ new_moths[r] \cap sent_moths[r] = {}
            /\ Picked(r) => moth[r] \notin sent_moths[r]
            /\ (sent_moths[r] = {1} /\ fetched[r] = <<{1, 2, 3}>>) =>
                   /\ new_moths[r] = {2, 3}
                   /\ Picked(r) => moth[r] \in {2, 3}

\* That scenario, with the unnamed observation picked and mailed under the
\* default name.
PoolIsNovelWitness ==
    \E r \in Runs :
        /\ Picked(r)
        /\ sent_moths[r] = {1}
        /\ fetched[r] = <<{1, 2, 3}>>
        /\ moth[r] = 3
        /\ common_name(moth[r]) = "Unknown moth"

\* C6 as claimed: the run gives up for want of candidates only after 20 pages.
ExhaustionAfterTwenty ==
    \A r \in Runs : err[r] = "exhausted" => Len(fetched[r]) = 20

\* C6: the run raises "Could not find unsent moth after retry" exactly when
\* MAX_ATTEMPTS = 2 pages have been received and none held a novel observation.
ExhaustionAfterRetry ==
    \A r \in Runs :
        (err[r] = "exhausted") <=> (Len(fetched[r]) = MAX_ATTEMPTS /\ Pool(r) = {})

\* Two pages in a row that hold only ids already sent.
ExhaustionAfterRetryWitness ==
    \E r \in Runs :
        /\ err[r] = "exhausted"
        /\ pc[r] = "failed"
        /\ \A i \in 1..MAX_ATTEMPTS : fetched[r][i] # {} /\ fetched[r][i] \subseteq sent_moths[r]

\* What a read of the Gist that succeeds returns in this state.
KnownIds == get_sent_moths(TRUE).ids

\* C7: after a PATCH that succeeded, with runs that do not overlap, a read of
\* the Gist that succeeds returns a set that holds the id appended: the stored
\* file parses and holds it, and so does the set of every run that has read
\* the file without a failure since.
AppendThenRead ==
    appended # 0 =>
        /\ ~get_sent_moths(TRUE).raises
        /\ appended \in KnownIds
        /\ \A r \in Runs :
              /\ (pc[r] \in {"sample", "retry", "choose", "send"} /\ ~fault[r])
                    => appended \in sent_moths[r]
              /\ (pc[r] = "patch" /\ ~fault[r]) => appended \in save_set[r]

\* The run after the append has read the known set, and the id is in it.
AppendThenReadWitness ==
    \E r \in Runs :
        /\ appended # 0
        /\ pc[r] = "sample"
        /\ ~fault[r]
        /\ appended \in sent_moths[r]

Uncommitted == \E r \in Runs : pc[r] \in {"save", "patch"}

ReadFailsSoft ==
    \A r \in Runs : ~(pc[r] = "failed" /\ err[r] = "store")

\* The mail of run r, as send_email handed it over, is among the mails accepted.
Delivered(r) ==
    \E i \in 1..Len(delivered) :
        delivered[i] = [id |-> moth[r], number |-> moth_number[r]]

\* C11: a PATCH that is rejected is not raised: the run ends without an
\* exception, with the record it selected delivered.
RejectedPatchIsSoft ==
    \A r \in Runs :
        patched[r] = "rejected" =>
            /\ pc[r] = "done"
            /\ err[r] = "none"
            /\ moth[r] \in Ids
            /\ Delivered(r)

\* A run ended well although the Gist refused its PATCH.
RejectedPatchIsSoftWitness ==
    \E r \in Runs :
        /\ patched[r] = "rejected"
        /\ pc[r] = "done"
        /\ Delivered(r)
        /\ moth[r] \notin KnownIds

\* C12: when a search request fails the run ends at once with that exception:
\* no record is returned, nothing is mailed or written by the run, and while
\* the run stays failed no further page is received.
SourceFailurePropagates ==
    /\ [](\A r \in Runs :
            err[r] = "source" =>
                /\ pc[r] = "failed"
                /\ moth[r] = 0
                /\ patched[r] = "no"
                /\ Len(fetched[r]) < MAX_ATTEMPTS)
    /\ [][\A r \in Runs :
            (err[r] = "source" /\ err'[r] = "source") =>
                /\ fetched'[r] = fetched[r]
                /\ pc'[r] = "failed"
                /\ (delivered' # delivered => \E q \in Runs \ {r} : pc[q] = "send")]_vars

\* The retry request failed after a redundant first page.
SourceFailurePropagatesWitness ==
    \E r \in Runs :
        /\ err[r] = "source"
        /\ pc[r] = "failed"
        /\ Len(fetched[r]) = 1
        /\ fetched[r][1] # {}

\* C13 as claimed: a first page without any record costs one attempt and the
\* run goes on to the next request.
EmptyPageIsRetried ==
    \A r \in Runs :
        (Len(fetched[r]) >= 1 /\ fetched[r][1] = {}) =>
            (pc[r] # "failed" \/ err[r] \in {"source", "exhausted"})

\* C13: a first page without any record ends the run at once, after that one
\* request, with "No moth observations found", and nothing is returned or
\* written; only a first page that holds records, all of them already sent,
\* leads to the second request.
EmptyPageEndsRun ==
    \A r \in Runs :
        /\ (Len(fetched[r]) >= 1 /\ fetched[r][1] = {}) =>
              /\ Len(fetched[r]) = 1
              /\ pc[r] = "failed"
              /\ err[r] = "no_observations"
              /\ moth[r] = 0
              /\ patched[r] = "no"
        /\ err[r] = "no_observations" => fetched[r] = <<{}>>
        /\ (Len(fetched[r]) = 1 /\ fetched[r][1] # {} /\ fetched[r][1] \subseteq sent_moths[r])
              => (pc[r] = "retry" \/ err[r] = "source")

\* The first page of a run that knows some ids came back empty.
EmptyPageEndsRunWitness ==
    \E r \in Runs :
        /\ fetched[r] = <<{}>>
        /\ err[r] = "no_observations"
        /\ sent_moths[r] # {}

RetryUntilFavorited ==
    \A r \in Runs :
        (/\ Len(fetched[r]) = 1
         /\ Pool(r) # {}
         /\ \A m \in Pool(r) : faves_count(m) = 0)
            => (pc[r] = "retry" \/ err[r] = "source")

\* C15: after a first page that held records, the run makes the second request
\* exactly when that page left no novel observation, favorited or not; there
\* are never more than MAX_ATTEMPTS = 2 requests.
RetryWhenEmpty ==
    \A r \in Runs :
        /\ (Len(fetched[r]) = 1 /\ fetched[r][1] # {}) =>
              ((pc[r] = "retry" \/ err[r] = "source") <=> Pool(r) = {})
        /\ Len(fetched[r]) <= MAX_ATTEMPTS
        /\ Len(fetched[r]) = MAX_ATTEMPTS => NovelOf(r, 1) = {}
        /\ pc[r] = "retry" => Len(fetched[r]) = 1

\* A first page with a novel observation and no favorited one: no retry.
RetryWhenEmptyWitness ==
    \E r \in Runs :
        /\ pc[r] = "choose"
        /\ Len(fetched[r]) = 1
        /\ Pool(r) # {}
        /\ \A m \in Pool(r) : faves_count(m) = 0

\* C16 as claimed: with runs that do not overlap, every id a run has written to
\* the Gist stays in the Gist.
StoreOnlyGrows == committed \subseteq KnownIds

\* C17: when a run whose reads succeeded writes a set that lacks the id another
\* run has written meanwhile, that PATCH replaces the file: afterwards the file
\* holds the later writer's id and not the earlier writer's, and both runs have
\* ended without an exception.
LostUpdate ==
    [][\A r, q \in Runs :
          (/\ r # q
           /\ pc[q] = "done" /\ patched[q] = "ok" /\ ~fault[q]
           /\ pc[r] = "patch" /\ ~fault[r]
           /\ moth[q] \notin save_set[r]
           /\ patched'[r] = "ok")
              => /\ moth[q] \notin KnownIds'
                 /\ moth[r] \in KnownIds'
                 /\ pc'[r] = "done" /\ err'[r] = "none"
                 /\ pc'[q] = "done" /\ err'[q] = "none"]_vars

\* Both runs mailed, both PATCHes were accepted, no request failed, and one of
\* the two ids is missing from the Gist.
LostUpdateWitness ==
    \E r, q \in Runs :
        /\ r # q
        /\ ~storeFault
        /\ pc[r] = "done" /\ patched[r] = "ok" /\ Delivered(r)
        /\ pc[q] = "done" /\ patched[q] = "ok" /\ Delivered(q)
        /\ moth[r] # moth[q]
        /\ moth[r] \in KnownIds
        /\ moth[q] \notin KnownIds

\* C18 as claimed: when nothing novel is favorited, the list the pick is drawn
\* from is the novel observations that carry a name, over all pages received.
PoolIsNamedUnion ==
    \A r \in Runs :
        (pc[r] \in {"choose", "send"} /\ \A m \in Pool(r) : faves_count(m) = 0)
            => new_moths[r] = {m \in Pool(r) : has_common_name(m)}

\* C18: the list the pick is drawn from is made of the novel observations,
\* named or not, of all pages received (its favorited members when there are
\* any), and no page before the last one had a novel observation to lose.
PoolIsNovelUnion ==
    \A r \in Runs :
        pc[r] \in {"choose", "send"} =>
            /\ new_moths[r] =
                  (IF \E m \in Pool(r) : faves_count(m) > 0
                      THEN {m \in Pool(r) : faves_count(m) > 0}
                      ELSE Pool(r))
            /\ \A i \in 1..(Len(fetched[r]) - 1) : NovelOf(r, i) = {}

\* After a redundant page, the retry brought a named and an unnamed novel
\* observation, and both are candidates.
PoolIsNovelUnionWitness ==
    \E r \in Runs :
        /\ pc[r] = "choose"
        /\ Len(fetched[r]) = MAX_ATTEMPTS
        /\ \E m \in new_moths[r] : has_common_name(m)
        /\ \E m \in new_moths[r] : ~has_common_name(m)

\* C19: a run that failed has sent no PATCH; a PATCH is sent once per run, by a
\* run whose selected record was mailed; and the file in the Gist changes only
\* with an accepted PATCH.
WriteAfterDelivery ==
    /\ [](\A r \in Runs : pc[r] = "failed" => patched[r] = "no")
    /\ [][\A r \in Runs :
            (patched'[r] # patched[r] /\ patched'[r] # "no") =>
                /\ patched[r] = "no"
                /\ pc[r] = "patch"
                /\ moth[r] \in Ids
                /\ Delivered(r)]_vars
    /\ [][doc' # doc => \E r \in Runs : patched[r] = "no" /\ patched'[r] = "ok"]_vars

\* One run's mail was refused and it wrote nothing, while the other run mailed
\* and then wrote its id.
WriteAfterDeliveryWitness ==
    \E r, q \in Runs :
        /\ pc[r] = "failed" /\ err[r] = "mail" /\ patched[r] = "no"
        /\ moth[r] \notin KnownIds
        /\ pc[q] = "done" /\ patched[q] = "ok" /\ Delivered(q)
        /\ moth[q] \in KnownIds

\* ------------------------------------------------------------ the photo URL
MaxUrlLen == 3
MaxRewrites == 2

\* A URL is the sequence of its words: the size words of the source, "large",
\* and any other word ("photos").
Words == {"square", "small", "medium", "thumb", "large", "photos"}
Urls == UNION {[1..n -> Words] : n \in 1..MaxUrlLen}

\* for size in ["square", "small", "medium", "thumb"] (line 106).
sizes == <<"square", "small", "medium", "thumb">>

\* photo_url.replace(size, "large"): every occurrence is replaced (line 108).
replace(url, size) == [k \in 1..Len(url) |-> IF url[k] = size THEN "large" ELSE url[k]]

RECURSIVE rewrite_from(_, _)
\* The loop of lines 106-109 from the i-th size on: the first size found in the
\* URL is replaced and the loop is left (break).
rewrite_from(url, i) ==
    IF i > Len(sizes) THEN url
    ELSE IF sizes[i] \in Range(url) THEN replace(url, sizes[i])
    ELSE rewrite_from(url, i + 1)

\* Slip: a URL that holds "large" is returned as it is.
large_photo_url_guarded(url) ==
    IF "large" \in Range(url) THEN url ELSE rewrite_from(url, 1)
\* photo_url after lines 105-109.
large_photo_url(url) == rewrite_from(url, 1)

\* photo_url = photo["url"] (line 105), for any URL the source may give.
UrlInit ==
    /\ configured = FALSE
    /\ doc = FlatDoc(<<>>)
    /\ NoRun
    /\ given_url \in Urls
    /\ photo_url = given_url
    /\ rewrites = 0

\* Lines 106-109 applied to photo_url (applied again to their own result, to
\* observe a second rewriting).
rewrite_photo_url ==
    /\ rewrites < MaxRewrites
    /\ photo_url' = large_photo_url(photo_url)
    /\ rewrites' = rewrites + 1
    /\ UNCHANGED <<given_url, configured, doc, pc, moth_number, sent_moths, fetched,
                   new_moths, moth, save_set, err, fault, patched, started,
                   delivered, committed, appended, storeFault>>

UrlNext == rewrite_photo_url

\* The rewriting of one photo URL, on its own.
UrlSpec == UrlInit /\ [][UrlNext]_vars

\* The size words that occur in a URL.
SizesIn(url) == Range(url) \cap Range(sizes)

====
